---- MODULE Spec2Model ----
(***************************************************************************)
(* A model of src/DiceRenderer/DiceRenderer.ts: the DiceGrid scene         *)
(* aggregate (camera, canvas, render loop, ResizeObserver callback) and    *)
(* the DiceCrystal tracked objects (transform synchroniser, tick, and the  *)
(* Idle / Hovered / Dragged state machine with its gsap tweens).           *)
(*                                                                         *)
(* The file holds two revisions of the renderer: lines 1-202 (orthographic *)
(* camera) and lines 204-420 (perspective camera).  The variable `variant` *)
(* says which revision a behaviour runs; the state machine is the same in  *)
(* both.                                                                   *)
(*                                                                         *)
(* Numbers are fixed point:                                                *)
(*   host pixels and orthographic world units   1                          *)
(*   normalised device coordinates              1 / NdcUnit                *)
(*   animated scale factor                      1 / ScaleUnit              *)
(*   base scale                                 1 / BaseUnit               *)
(*   angles                                     1 / 1000 rad               *)
(*   gsap time                                  0.2 s per GsapTick         *)
(* IEEE non-finite values are the markers NaN, PosInf and NegInf.          *)
(***************************************************************************)
EXTENDS Integers, Sequences, FiniteSets, TLC

VARIABLES
    variant,      \* "ortho" (lines 1-202) or "persp" (lines 204-420)
    observed,     \* the grid size the ResizeObserver reported last, <<>>
                  \* before its first notification
    canvasSize,   \* width / height of canvas.getBoundingClientRect()
    camera,       \* DiceGrid.camera projection parameters
    rafPending,   \* frame callbacks queued by requestAnimationFrame
    dices,        \* DiceGrid.dices, in insertion order
    log,          \* the calls made by the last step, when it ran a handler
    steps         \* external events consumed so far

vars == <<variant, observed, canvasSize, camera, rafPending, dices, log,
          steps>>

----------------------------------------------------------------------------
(* Bounds of the exploration *)

MaxDice == 2

MaxSteps == 5

----------------------------------------------------------------------------
(* Program constants *)

\* 0.005 rad per update
IDLE_ROTATE_SPEED == 5

\* 0.04 rad per update
DRAG_ROTATE_SPEED == 40

\* 0.4, in units of 1 / BaseUnit
SCALE == 4

\* Math.PI * 2
FullTurn == 6283

\* the z of a hovered or dragged dice in the first revision's tick
FrontZ == 400

\* the factor applied to the ratio in updateTransform: 2, and sc = 200 in
\* the second revision
Sc == [ortho |-> 2, persp |-> 200]

\* Fixed-point denominators
NdcUnit == 8

ScaleUnit == 1000

BaseUnit == 10

\* IEEE-754 markers, outside the range of every finite value of the model
NaN == 9000001

PosInf == 9000002

NegInf == 9000003

IsFinite(x) == x \notin {NaN, PosInf, NegInf}

States == {"Idle", "Hovered", "Dragged"}

----------------------------------------------------------------------------
(* Inputs supplied by the host page *)

\* layout rectangles a dice placeholder can have (getBoundingClientRect)
Rects ==
    { [left |-> 2, top |-> 2, width |-> 2, height |-> 2],
      [left |-> 4, top |-> 2, width |-> 4, height |-> 2] }

\* sizes the grid element can have, <<0, 0>> being "not laid out yet"
Sizes == { <<0, 0>>, <<4, 4>>, <<8, 4>> }

\* where the canvas sits in the host coordinate space
CanvasOrigin == [left |-> 2, top |-> 2]

----------------------------------------------------------------------------
(* JavaScript arithmetic on the markers *)

Neg(x) ==
    IF x = NaN THEN NaN
    ELSE IF x = PosInf THEN NegInf
    ELSE IF x = NegInf THEN PosInf
    ELSE 0 - x

Add(x, y) ==
    IF x = NaN \/ y = NaN THEN NaN
    ELSE IF x = PosInf THEN (IF y = NegInf THEN NaN ELSE PosInf)
    ELSE IF x = NegInf THEN (IF y = PosInf THEN NaN ELSE NegInf)
    ELSE IF ~IsFinite(y) THEN y
    ELSE x + y

\* a / b * sc - 1 in units of 1 / NdcUnit, a and b finite
RatioToNdc(a, b, sc) ==
    IF b = 0
    THEN (IF a = 0 THEN NaN ELSE IF a > 0 THEN PosInf ELSE NegInf)
    ELSE (a * sc * NdcUnit) \div b - NdcUnit

\* width / height of the perspective camera
Aspect(w, h) ==
    IF h = 0 THEN (IF w = 0 THEN NaN ELSE PosInf) ELSE w \div h

----------------------------------------------------------------------------
(* DiceCrystal.updateTransform *)

GridRect ==
    [left |-> CanvasOrigin.left, top |-> CanvasOrigin.top,
     width |-> canvasSize[1], height |-> canvasSize[2]]

XNdc(rect, gridRect, v) ==
    RatioToNdc((rect.left + rect.width \div 2) - gridRect.left,
               gridRect.width, Sc[v])

YNdc(rect, gridRect, v) ==
    Neg(RatioToNdc((rect.top + rect.height \div 2) - gridRect.top,
                   gridRect.height, Sc[v]))

\* Vector3.unproject of (x, y, 0): any non-finite input or a degenerate
\* projection makes every component NaN (0 * Infinity in applyMatrix4)
Unproject(x, y, cam, v) ==
    IF ~IsFinite(x) \/ ~IsFinite(y) THEN [x |-> NaN, y |-> NaN]
    ELSE IF v = "ortho"
    THEN IF cam.right = cam.left \/ cam.top = cam.bottom
         THEN [x |-> NaN, y |-> NaN]
         ELSE [x |-> (x * ((cam.right - cam.left) \div 2)) \div NdcUnit
                       + (cam.right + cam.left) \div 2,
               y |-> (y * ((cam.top - cam.bottom) \div 2)) \div NdcUnit
                       + (cam.top + cam.bottom) \div 2]
    ELSE IF ~IsFinite(cam.aspect) \/ cam.aspect = 0
         THEN [x |-> NaN, y |-> NaN]
         ELSE [x |-> x * cam.aspect, y |-> y]

SetBase_Accumulate(o, worldPosition, v) ==
    [o EXCEPT !.baseScale = IF v = "ortho" THEN o.rect.width * SCALE ELSE @,
              !.basePos = [x |-> Add(@.x, worldPosition.x),
                           y |-> Add(@.y, worldPosition.y),
                           z |-> @.z]]

SetBase_ResetZ(o, worldPosition, v) ==
    [o EXCEPT !.baseScale = IF v = "ortho" THEN o.rect.width * SCALE ELSE @,
              !.basePos = [x |-> worldPosition.x, y |-> worldPosition.y,
                           z |-> 0]]

\* the two writes that end updateTransform: _scale.set and _position.set
SetBase(o, worldPosition, v) ==
    [o EXCEPT !.baseScale = IF v = "ortho" THEN o.rect.width * SCALE ELSE @,
              !.basePos = [x |-> worldPosition.x, y |-> worldPosition.y,
                           z |-> @.z]]

UpdateTransform(o, gridRect, cam, v) ==
    SetBase(o, Unproject(XNdc(o.rect, gridRect, v),
                         YNdc(o.rect, gridRect, v), cam, v), v)

----------------------------------------------------------------------------
(* The trace of one handler: which calls it made, in which order *)

Ev(op, d, arg, from) ==
    [op |-> op, d |-> d, arg |-> arg, from |-> from, out |-> <<>>]

Logged(c, op, arg, from) ==
    [c EXCEPT !.log = Append(@, Ev(op, c.id, arg, from))]

----------------------------------------------------------------------------
(* gsap: gsap.to and gsap.killTweensOf.  A tween records the property it    *)
(* writes, its end value (relative for "+="), its duration and its age in  *)
(* GsapTick units and, once it has rendered, the value it started from.    *)

Tween(prop, to, rel, dur) ==
    [prop |-> prop, to |-> to, rel |-> rel, dur |-> dur, age |-> 0, from |-> 0]

GsapTo(c, prop, to, rel, dur) ==
    [c EXCEPT !.o.tweens = Append(@, Tween(prop, to, rel, dur)),
              !.log = Append(@, Ev("to", c.id, prop, ""))]

KillTweensOf_All(c, prop) ==
    [c EXCEPT !.o.tweens = <<>>,
              !.log = Append(@, [Ev("kill", c.id, prop, "") EXCEPT
                                    !.out = SelectSeq(c.o.tweens,
                                                LAMBDA t : t.prop = prop)])]

\* the trace entry of a kill carries the tweens it cancelled
KillTweensOf(c, prop) ==
    [c EXCEPT !.o.tweens = SelectSeq(@, LAMBDA t : t.prop # prop),
              !.log = Append(@, [Ev("kill", c.id, prop, "") EXCEPT
                                    !.out = SelectSeq(c.o.tweens,
                                                LAMBDA t : t.prop = prop)])]

----------------------------------------------------------------------------
(* IdleState, HoverState, DragState: enter and exit *)

IdleState_enter(c) ==
    GsapTo(Logged(c, "enter", "Idle", ""), "scale", ScaleUnit, FALSE, 2)

IdleState_exit(c) ==
    Logged(c, "exit", "Idle", "")

HoverState_enter(c) ==
    GsapTo(Logged(c, "enter", "Hovered", ""),
           "scale", (ScaleUnit * 11) \div 10, FALSE, 2)

HoverState_exit(c) ==
    GsapTo(Logged(c, "exit", "Hovered", ""), "posY", 0, FALSE, 1)

DragState_enter_KeepScale(c) ==
    GsapTo(KillTweensOf(Logged(c, "enter", "Dragged", ""), "rotY"),
           "scale", (ScaleUnit * 9) \div 10, FALSE, 1)

DragState_enter(c) ==
    GsapTo(KillTweensOf(KillTweensOf(Logged(c, "enter", "Dragged", ""),
                                     "rotY"), "scale"),
           "scale", (ScaleUnit * 9) \div 10, FALSE, 1)

DragState_exit(c) ==
    GsapTo(KillTweensOf(KillTweensOf(Logged(c, "exit", "Dragged", ""),
                                     "rotY"), "scale"),
           "rotY", FullTurn, TRUE, 4)

Enter(st, c) ==
    CASE st = "Idle" -> IdleState_enter(c)
      [] st = "Hovered" -> HoverState_enter(c)
      [] st = "Dragged" -> DragState_enter(c)

Exit(st, c) ==
    CASE st = "Idle" -> IdleState_exit(c)
      [] st = "Hovered" -> HoverState_exit(c)
      [] st = "Dragged" -> DragState_exit(c)

----------------------------------------------------------------------------
(* DiceCrystal.setState *)

\* this.state.exit(this)
ExitCurrent(c) == Exit(c.o.state, c)

\* this.state = newState
Assign(c, newState) ==
    [Logged(c, "assign", newState, "") EXCEPT !.o.state = newState]

\* this.state.enter(this)
EnterCurrent(c) == Enter(c.o.state, c)

SetState_EnterFirst(c, newState) ==
    Assign(EnterCurrent(ExitCurrent(Logged(c, "setState", newState,
                                           c.o.state))), newState)

SetState(c, newState) ==
    EnterCurrent(Assign(ExitCurrent(Logged(c, "setState", newState,
                                           c.o.state)), newState))

----------------------------------------------------------------------------
(* IdleState, HoverState, DragState: update *)

\* dice.mesh.rotation.y = (dice.mesh.rotation.y + speed) % (Math.PI * 2)
Rotate(c, speed) ==
    [c EXCEPT !.o.rotY = (@ + speed) % FullTurn]

IdleTransitions_HoverFirst(c) ==
    IF c.o.isHovered THEN SetState(c, "Hovered")
    ELSE IF c.o.isDragged THEN SetState(c, "Dragged")
    ELSE c

IdleTransitions(c) ==
    IF c.o.isDragged THEN SetState(c, "Dragged")
    ELSE IF c.o.isHovered THEN SetState(c, "Hovered")
    ELSE c

IdleState_update(c) ==
    IdleTransitions(Rotate(c, IDLE_ROTATE_SPEED))

HoverState_update_LeaveFirst(c) ==
    IF ~c.o.isHovered THEN SetState(c, "Idle")
    ELSE IF c.o.isDragged THEN SetState(c, "Dragged")
    ELSE c

HoverState_update_Always(c) ==
    IF c.o.isDragged THEN SetState(c, "Dragged")
    ELSE SetState(c, IF c.o.isHovered THEN "Hovered" ELSE "Idle")

HoverState_update_NoDrag(c) ==
    IF ~c.o.isHovered THEN SetState(c, "Idle")
    ELSE c

HoverState_update(c) ==
    IF c.o.isDragged THEN SetState(c, "Dragged")
    ELSE IF ~c.o.isHovered THEN SetState(c, "Idle")
    ELSE c

DragTransitions_ToHover(c) ==
    IF ~c.o.isDragged
    THEN SetState(c, IF c.o.isHovered THEN "Hovered" ELSE "Idle")
    ELSE c

DragTransitions(c) ==
    IF ~c.o.isDragged THEN SetState(c, "Idle")
    ELSE c

DragState_update(c) ==
    DragTransitions(Rotate(c, DRAG_ROTATE_SPEED))

\* this.state.update(this)
Dispatch(c) ==
    CASE c.o.state = "Idle" -> IdleState_update(c)
      [] c.o.state = "Hovered" -> HoverState_update(c)
      [] c.o.state = "Dragged" -> DragState_update(c)

Update(c) ==
    Dispatch(Logged(c, "update", c.o.state, ""))

----------------------------------------------------------------------------
(* DiceCrystal.tick *)

Compose_IntoBase(o, v) ==
    [o EXCEPT
       !.baseScale = o.baseScale * o.scale,
       !.meshPos = [x |-> Add(o.basePos.x, o.position.x),
                    y |-> Add(o.basePos.y, o.position.y),
                    z |-> Add(o.basePos.z, o.position.z)],
       !.basePos.z = IF v = "ortho"
                     THEN (IF o.isHovered \/ o.isDragged THEN FrontZ ELSE 0)
                     ELSE @]

\* the three statements of tick that follow this.state.update(this)
Compose(o, v) ==
    [o EXCEPT
       !.meshScale = o.baseScale * o.scale,
       !.meshPos = [x |-> Add(o.basePos.x, o.position.x),
                    y |-> Add(o.basePos.y, o.position.y),
                    z |-> Add(o.basePos.z, o.position.z)],
       !.basePos.z = IF v = "ortho"
                     THEN (IF o.isHovered \/ o.isDragged THEN FrontZ ELSE 0)
                     ELSE @]

ComposeIn(c, v) ==
    [Logged(c, "compose", "", "") EXCEPT !.o = Compose(c.o, v)]

Tick(c, v) ==
    ComposeIn(Update(c), v)

----------------------------------------------------------------------------
(* The gsap ticker: every tween in flight renders, oldest first.  On its   *)
(* first render a tween reads the value it starts from; "power2.out" is    *)
(* 1 - (1 - p)^3.                                                          *)

GetProp(o, prop) ==
    CASE prop = "scale" -> o.scale
      [] prop = "posY" -> o.position.y
      [] prop = "rotY" -> o.rotY

SetProp(o, prop, val) ==
    CASE prop = "scale" -> [o EXCEPT !.scale = val]
      [] prop = "posY" -> [o EXCEPT !.position.y = val]
      [] prop = "rotY" -> [o EXCEPT !.rotY = val]

Power2Out(from, end, age, dur) ==
    IF age >= dur THEN end
    ELSE from + ((end - from) * (dur * dur * dur
                   - (dur - age) * (dur - age) * (dur - age)))
                \div (dur * dur * dur)

RECURSIVE RunTweens(_, _, _)
RunTweens(o, ts, kept) ==
    IF ts = <<>> THEN [o EXCEPT !.tweens = kept]
    ELSE LET t == Head(ts)
             from == IF t.age = 0 THEN GetProp(o, t.prop) ELSE t.from
             age == t.age + 1
             end == IF t.rel THEN from + t.to ELSE t.to
             o1 == SetProp(o, t.prop, Power2Out(from, end, age, t.dur))
         IN  RunTweens(o1, Tail(ts),
                       IF age >= t.dur THEN kept
                       ELSE Append(kept, [t EXCEPT !.age = age,
                                                   !.from = from]))

----------------------------------------------------------------------------
(* DiceGrid.renderLoop *)

\* what renderer.render draws: each mesh's transform as it is at that moment
Drawn(ds) ==
    [i \in DOMAIN ds |->
        [pos |-> ds[i].meshPos, scale |-> ds[i].meshScale, rotY |-> ds[i].rotY]]

\* the result of one object's tick, put back into the grid
Put(g, i, c) ==
    [g EXCEPT !.dices[i] = c.o, !.log = c.log]

\* this.dices.forEach(dice => dice.tick())
RECURSIVE TickAll(_, _, _)
TickAll(g, i, v) ==
    IF i > Len(g.dices) THEN g
    ELSE TickAll(Put(g, i, Tick([o |-> g.dices[i], id |-> i, log |-> g.log],
                                v)),
                 i + 1, v)

Schedule_Always(once, g) ==
    [g EXCEPT !.raf = @ + 1, !.log = Append(@, Ev("raf", 0, "", ""))]

\* if (!once) requestAnimationFrame(() => this.renderLoop(false))
Schedule(once, g) ==
    IF ~once
    THEN [g EXCEPT !.raf = @ + 1, !.log = Append(@, Ev("raf", 0, "", ""))]
    ELSE g

\* this.renderer.render(this.scene, this.camera)
Render(g) ==
    [g EXCEPT !.log = Append(@, [Ev("render", 0, "", "") EXCEPT
                                     !.out = Drawn(g.dices)])]

RenderLoop(once, g, v) ==
    TickAll(Render(Schedule(once, g)), 1, v)

----------------------------------------------------------------------------
(* The ResizeObserver callback of DiceGrid's constructor *)

ResizedCamera_Swapped(cam, w, h, v) ==
    IF v = "ortho"
    THEN [cam EXCEPT !.left = (0 - w) \div 2, !.right = w \div 2,
                     !.top = w \div 2, !.bottom = (0 - w) \div 2]
    ELSE [cam EXCEPT !.aspect = Aspect(h, w)]

ResizedCamera(cam, w, h, v) ==
    IF v = "ortho"
    THEN [cam EXCEPT !.left = (0 - w) \div 2, !.right = w \div 2,
                     !.top = h \div 2, !.bottom = (0 - h) \div 2]
    ELSE [cam EXCEPT !.aspect = Aspect(w, h)]

\* the canvas rectangle of a grid value
RectOf(g) ==
    [left |-> CanvasOrigin.left, top |-> CanvasOrigin.top,
     width |-> g.canvasSize[1], height |-> g.canvasSize[2]]

\* this.dices.forEach(dice => dice.updateTransform())
RECURSIVE SyncAll(_, _, _)
SyncAll(g, i, v) ==
    IF i > Len(g.dices) THEN g
    ELSE SyncAll([g EXCEPT
                    !.dices[i] = UpdateTransform(@, RectOf(g), g.camera, v),
                    !.log = Append(@, Ev("sync", i, "", ""))],
                 i + 1, v)

\* renderer.setSize and the camera assignments with updateProjectionMatrix
SetSize(g, w, h, v) ==
    [g EXCEPT !.canvasSize = <<w, h>>,
              !.camera = ResizedCamera(@, w, h, v),
              !.log = Append(@, Ev("camera", 0, "", ""))]

OnResize_RenderFirst(g, w, h, v) ==
    SyncAll(RenderLoop(TRUE, SetSize(g, w, h, v), v), 1, v)

\* g: [dices, log, raf, camera, canvasSize]
OnResize(g, w, h, v) ==
    RenderLoop(TRUE, SyncAll(SetSize(g, w, h, v), 1, v), v)

----------------------------------------------------------------------------
(* DiceCrystal's constructor *)

NewDice(rect, v) ==
    [rect |-> rect,
     state |-> "Idle", isHovered |-> FALSE, isDragged |-> FALSE,
     position |-> [x |-> 0, y |-> 0, z |-> 0],
     basePos |-> [x |-> 0, y |-> 0, z |-> 0],
     scale |-> IF v = "ortho" THEN 0 ELSE ScaleUnit,
     baseScale |-> IF v = "ortho" THEN 0 ELSE BaseUnit,
     meshPos |-> [x |-> 0, y |-> 0, z |-> 0],
     meshScale |-> BaseUnit * ScaleUnit,
     rotY |-> 0,
     tweens |-> <<>>]

\* the constructor's closing this.updateTransform()
SyncIn(c, gridRect, cam, v) ==
    [Logged(c, "sync", "", "") EXCEPT
        !.o = UpdateTransform(@, gridRect, cam, v)]

Construct(id, rect, gridRect, cam, v) ==
    SyncIn(SetState([o |-> NewDice(rect, v), id |-> id,
                     log |-> <<Ev("construct", id, "", "")>>], "Idle"),
           gridRect, cam, v)

----------------------------------------------------------------------------
(* State, initial state and actions *)

InitCamera(v) ==
    [left |-> 0, right |-> 0, top |-> 0, bottom |-> 0,
     aspect |-> IF v = "ortho" THEN 0 ELSE 1]

Grid ==
    [dices |-> dices, log |-> <<>>, raf |-> rafPending, camera |-> camera,
     canvasSize |-> canvasSize]

\* the grid a handler leaves behind becomes the next state
Becomes(g) ==
    /\ canvasSize' = g.canvasSize
    /\ camera' = g.camera
    /\ dices' = g.dices
    /\ rafPending' = g.raf
    /\ log' = g.log

Constructed(g) ==
    /\ rafPending = g.raf
    /\ log = g.log

\* DiceGrid's constructor, which ends with this.renderLoop(false)
Init ==
    /\ variant \in {"ortho", "persp"}
    /\ observed = <<>>
    /\ canvasSize \in Sizes
    /\ camera = InitCamera(variant)
    /\ dices = <<>>
    /\ Constructed(RenderLoop(FALSE,
                              [dices |-> <<>>,
                               log |-> <<Ev("new", 0, "", "")>>, raf |-> 0,
                               camera |-> camera, canvasSize |-> canvasSize],
                              variant))
    /\ steps = 0

\* this.dices.push(newDice)
Pushed(c) ==
    /\ dices' = Append(dices, c.o)
    /\ log' = c.log

\* DiceGrid.addDice
AddDice(rect) ==
    /\ Len(dices) < MaxDice
    /\ steps < MaxSteps
    /\ Pushed(Construct(Len(dices) + 1, rect, GridRect, camera, variant))
    /\ steps' = steps + 1
    /\ UNCHANGED <<variant, observed, canvasSize, camera, rafPending>>

\* the input collaborator writes the public flags of a dice
SetFlags(d, h, g) ==
    /\ steps < MaxSteps
    /\ <<h, g>> # <<dices[d].isHovered, dices[d].isDragged>>
    /\ dices' = [dices EXCEPT ![d].isHovered = h, ![d].isDragged = g]
    /\ log' = <<>>
    /\ steps' = steps + 1
    /\ UNCHANGED <<variant, observed, canvasSize, camera, rafPending>>

MutationCallback_All(d, rect) ==
    /\ steps < MaxSteps
    /\ rect # dices[d].rect
    /\ dices' = [e \in DOMAIN dices |->
                    UpdateTransform(IF e = d
                                    THEN [dices[e] EXCEPT !.rect = rect]
                                    ELSE dices[e],
                                    GridRect, camera, variant)]
    /\ log' = <<Ev("mutation", d, "", "")>>
                \o [e \in DOMAIN dices |-> Ev("sync", e, "", "")]
    /\ steps' = steps + 1
    /\ UNCHANGED <<variant, observed, canvasSize, camera, rafPending>>

\* The host changes an attribute of a placeholder, which moves its
\* rectangle; the MutationObserver callback of DiceCrystal's constructor runs
\* as a microtask of the same task, before any other handler.
MutationCallback(d, rect) ==
    /\ steps < MaxSteps
    /\ rect # dices[d].rect
    /\ dices' = [dices EXCEPT
                   ![d] = UpdateTransform([@ EXCEPT !.rect = rect], GridRect,
                                          camera, variant)]
    /\ log' = <<Ev("mutation", d, "", ""), Ev("sync", d, "", "")>>
    /\ steps' = steps + 1
    /\ UNCHANGED <<variant, observed, canvasSize, camera, rafPending>>

\* The ResizeObserver callback of DiceGrid's constructor: the grid element is
\* laid out at size sz (the first notification follows observe(), the later
\* ones a change of size) and the callback reads clientWidth / clientHeight.
ResizeCallback(sz) ==
    /\ steps < MaxSteps
    /\ sz # observed
    /\ Becomes(OnResize([Grid EXCEPT !.log = <<Ev("resize", 0, "", "")>>],
                        sz[1], sz[2], variant))
    /\ observed' = sz
    /\ steps' = steps + 1
    /\ UNCHANGED variant

\* a frame callback scheduled by requestAnimationFrame runs
Frame ==
    /\ rafPending > 0
    /\ steps < MaxSteps
    /\ Becomes(RenderLoop(FALSE,
                          [Grid EXCEPT !.raf = rafPending - 1,
                                       !.log = <<Ev("frame", 0, "", "")>>],
                          variant))
    /\ steps' = steps + 1
    /\ UNCHANGED <<variant, observed>>

\* gsap's ticker advances every tween in flight by one time unit
GsapTick ==
    /\ steps < MaxSteps
    /\ \E d \in DOMAIN dices : dices[d].tweens # <<>>
    /\ dices' = [d \in DOMAIN dices |->
                    RunTweens(dices[d], dices[d].tweens, <<>>)]
    /\ log' = <<>>
    /\ steps' = steps + 1
    /\ UNCHANGED <<variant, observed, canvasSize, camera, rafPending>>

Next ==
    \/ \E r \in Rects : AddDice(r)
    \/ \E d \in DOMAIN dices : \E h, g \in BOOLEAN : SetFlags(d, h, g)
    \/ \E d \in DOMAIN dices : \E r \in Rects : MutationCallback(d, r)
    \/ \E sz \in Sizes : ResizeCallback(sz)
    \/ Frame
    \/ GsapTick

Spec == Init /\ [][Next]_vars

----------------------------------------------------------------------------
(* A second specification, for the property about the settle spin.         *)
(* It starts where the program is after addDice, one frame with the dice   *)
(* dragged and one frame with the dice released (hovered or not): the dice *)
(* is Idle again and the settle spin that DragState.exit starts is in      *)
(* flight.  Its steps are those of Spec.                                   *)

\* the grid right after DiceGrid's constructor
NewGrid(cs, v) ==
    [dices |-> <<>>, log |-> <<>>, raf |-> 1, camera |-> InitCamera(v),
     canvasSize |-> cs]

\* addDice on a grid value
WithDice(g, rect, v) ==
    [g EXCEPT !.dices = Append(@, Construct(Len(@) + 1, rect, RectOf(g),
                                            g.camera, v).o)]

\* the input collaborator's writes on a grid value
Flagged(g, d, h, dr) ==
    [g EXCEPT !.dices[d].isHovered = h, !.dices[d].isDragged = dr]

\* one frame callback on a grid value
Framed(g, v) ==
    RenderLoop(FALSE, [g EXCEPT !.raf = @ - 1,
                                !.log = <<Ev("frame", 0, "", "")>>], v)

Released(rect, h, cs, v) ==
    Framed(Flagged(Framed(Flagged(WithDice(NewGrid(cs, v), rect, v),
                                  1, FALSE, TRUE), v),
                   1, h, FALSE), v)

Starts(g) ==
    /\ camera = g.camera
    /\ dices = g.dices
    /\ rafPending = g.raf
    /\ log = g.log

ReleasedInit ==
    /\ variant \in {"ortho", "persp"}
    /\ observed = <<>>
    /\ canvasSize = <<4, 4>>
    /\ \E r \in Rects : \E h \in BOOLEAN :
          Starts(Released(r, h, canvasSize, variant))
    /\ steps = 0

SpecReleased == ReleasedInit /\ [][Next]_vars

----------------------------------------------------------------------------
(* Vocabulary of the properties *)

\* the entries of the last trace that are one of `ops` about object d
Calls(d, ops) ==
    SelectSeq(log, LAMBDA e : e.d = d /\ e.op \in ops)

\* the last step ran `handler` ("frame", "resize", "mutation", "construct")
Ran(handler) == log # <<>> /\ log[1].op = handler

\* object d was updated by the last step, from state s
UpdatedFrom(d, s) ==
    \E i \in DOMAIN log :
        log[i].op = "update" /\ log[i].d = d /\ log[i].arg = s

TweensOn(d, prop) ==
    SelectSeq(dices[d].tweens, LAMBDA t : t.prop = prop)

\* the transition table of the specification, section 4.2
TableNext(s, h, g) ==
    CASE s = "Idle" /\ g -> "Dragged"
      [] s = "Idle" /\ h /\ ~g -> "Hovered"
      [] s = "Hovered" /\ g -> "Dragged"
      [] s = "Hovered" /\ ~h /\ ~g -> "Idle"
      [] s = "Dragged" /\ ~g -> "Idle"
      [] OTHER -> s

\* one update of a fresh object put in state s with flags h and g
Probe(s, h, g) ==
    Update([o |-> [NewDice(CHOOSE r \in Rects : TRUE, "ortho") EXCEPT
                      !.state = s, !.isHovered = h, !.isDragged = g],
            id |-> 1, log |-> <<>>]).o.state

----------------------------------------------------------------------------
(* C1: whenever an object is updated while its isDragged flag is set, its  *)
(* state is Dragged when the update returns, whatever state it was in and  *)
(* whatever isHovered is.                                                  *)

C1_DraggedAfterUpdate ==
    \A d \in DOMAIN dices : \A s \in States :
        (UpdatedFrom(d, s) /\ dices[d].isDragged)
            => dices[d].state = "Dragged"

\* a hovered object with both flags set was updated and is now Dragged
C1_Witness ==
    \E d \in DOMAIN dices :
        /\ UpdatedFrom(d, "Hovered")
        /\ dices[d].isDragged /\ dices[d].isHovered
        /\ dices[d].state = "Dragged"

(* C2: an update of a Dragged object whose isDragged flag is clear leaves  *)
(* it Idle, for either value of isHovered; no update takes an object from  *)
(* Dragged to Hovered.                                                     *)

C2_DraggedLeavesToIdle ==
    \A d \in DOMAIN dices :
        UpdatedFrom(d, "Dragged")
            => /\ ~dices[d].isDragged => dices[d].state = "Idle"
               /\ dices[d].state # "Hovered"

\* a Dragged object was released while hovered and is now Idle
C2_Witness ==
    \E d \in DOMAIN dices :
        /\ UpdatedFrom(d, "Dragged")
        /\ ~dices[d].isDragged /\ dices[d].isHovered
        /\ dices[d].state = "Idle"

(* C3: the state after an update is the one the transition table gives for *)
(* (state before, isHovered, isDragged): in every reachable state, whatever*)
(* happened before, and for each of the 3 x 2 x 2 inputs.                  *)

C3_UpdateFollowsTable ==
    /\ \A d \in DOMAIN dices : \A s \in States :
          UpdatedFrom(d, s)
              => dices[d].state
                   = TableNext(s, dices[d].isHovered, dices[d].isDragged)
    /\ \A s \in States : \A h, g \in BOOLEAN :
          Probe(s, h, g) = TableNext(s, h, g)

\* two objects were updated in one frame: one on a combination that keeps
\* the state, the other on a row of the table that changes it
C3_Witness ==
    \E d, e \in DOMAIN dices :
        /\ UpdatedFrom(d, "Idle") /\ ~dices[d].isHovered /\ ~dices[d].isDragged
        /\ dices[d].state = "Idle"
        /\ UpdatedFrom(e, "Idle") /\ dices[e].isHovered /\ dices[e].isDragged
        /\ dices[e].state = "Dragged"

(* C4: every change of an object's state is made by setState, which runs   *)
(* one exit of the state held before, then assigns the new state, then     *)
(* runs one enter of the new state; no exit or enter runs outside such a   *)
(* call.                                                                   *)

Protocol(d) == Calls(d, {"setState", "exit", "assign", "enter"})

WellFormedProtocol(p) ==
    /\ Len(p) % 4 = 0
    /\ \A k \in 0 .. (Len(p) \div 4) - 1 :
          /\ p[4 * k + 1].op = "setState"
          /\ p[4 * k + 2].op = "exit" /\ p[4 * k + 2].arg = p[4 * k + 1].from
          /\ p[4 * k + 3].op = "assign" /\ p[4 * k + 3].arg = p[4 * k + 1].arg
          /\ p[4 * k + 4].op = "enter" /\ p[4 * k + 4].arg = p[4 * k + 1].arg

\* the state object d held before the step (the field initialiser for an
\* object the step constructs)
StateBefore(d) ==
    IF d \in DOMAIN dices THEN dices[d].state ELSE "Idle"

C4_SetStateProtocol ==
    [][\A d \in DOMAIN dices' :
          /\ WellFormedProtocol(Protocol(d)')
          /\ Protocol(d)' = <<>> => dices'[d].state = StateBefore(d)
          /\ Protocol(d)' # <<>>
               => /\ Protocol(d)'[1].from = StateBefore(d)
                  /\ dices'[d].state = Protocol(d)'[Len(Protocol(d)')].arg]_vars

\* an update took an object from Hovered to Dragged through one setState
C4_Witness ==
    \E d \in DOMAIN dices :
        /\ Len(Protocol(d)) = 4
        /\ Protocol(d)[1].from = "Hovered"
        /\ Protocol(d)[1].arg = "Dragged"
        /\ dices[d].state = "Dragged"

(* C5: setState is never invoked with the state the object is already in,  *)
(* from construction onward.                                               *)

C5_NeverSameState ==
    \A i \in DOMAIN log : log[i].op = "setState" => log[i].arg # log[i].from

(* C5 as amended: the constructor's setState(Idle), made while the state   *)
(* is already Idle, is the only setState call with the current state; every*)
(* setState call made by an update has a new state different from the      *)
(* current one, the one the transition table gives for the object's flags. *)

C5_OnlyConstructorReenters ==
    \A i \in DOMAIN log :
        log[i].op = "setState"
            => IF Ran("construct")
               THEN log[i].arg = "Idle" /\ log[i].from = "Idle"
                    /\ Len(Calls(log[i].d, {"setState"})) = 1
               ELSE /\ log[i].arg # log[i].from
                    /\ log[i].arg = TableNext(log[i].from,
                                              dices[log[i].d].isHovered,
                                              dices[log[i].d].isDragged)

\* an update called setState to leave Hovered for Idle
C5_Witness ==
    \E i \in DOMAIN log :
        /\ log[i].op = "setState" /\ ~Ran("construct")
        /\ log[i].from = "Hovered" /\ log[i].arg = "Idle"

(* C6: an update of a Hovered object whose isDragged flag is set takes it  *)
(* to Dragged in that one update, without Idle's enter running; the update *)
(* cancels the object's rotation and scale tweens, and afterwards the only *)
(* scale tween in flight for the object is the one toward 0.9.             *)

C6_HoveredToDragged ==
    \A d \in DOMAIN dices :
        (UpdatedFrom(d, "Hovered") /\ dices[d].isDragged)
            => /\ dices[d].state = "Dragged"
               /\ Len(Calls(d, {"setState"})) = 1
               /\ \A i \in DOMAIN Calls(d, {"enter"}) :
                     Calls(d, {"enter"})[i].arg = "Dragged"
               /\ Len(Calls(d, {"kill"})) = 2
               /\ Calls(d, {"kill"})[1].arg = "rotY"
               /\ Calls(d, {"kill"})[2].arg = "scale"
               /\ TweensOn(d, "rotY") = <<>>
               /\ Len(TweensOn(d, "scale")) = 1
               /\ TweensOn(d, "scale")[1].to = (ScaleUnit * 9) \div 10
               /\ TweensOn(d, "scale")[1].age = 0

\* the update cancelled a scale tween that was in flight (the one toward 1.1
\* that Hovered's enter had started)
C6_Witness ==
    \E d \in DOMAIN dices :
        /\ UpdatedFrom(d, "Hovered") /\ dices[d].isDragged
        /\ dices[d].state = "Dragged"
        /\ \E i \in DOMAIN Calls(d, {"kill"}) :
              /\ Calls(d, {"kill"})[i].arg = "scale"
              /\ \E j \in DOMAIN Calls(d, {"kill"})[i].out :
                    Calls(d, {"kill"})[i].out[j].to = (ScaleUnit * 11) \div 10
        /\ Len(TweensOn(d, "scale")) = 1

(* C7: the resize callback updates the camera projection, then recomputes  *)
(* the base transform of every tracked object, then renders exactly once,  *)
(* in that order; the render is made by the callback itself, which         *)
(* schedules no frame and leaves the pending frame pending.                *)

Count(op) == Len(SelectSeq(log, LAMBDA e : e.op = op))

C7_ResizeOrder ==
    [][Ran("resize")'
         => /\ log'[2].op = "camera"
            /\ \A i \in 1 .. Len(dices') :
                  log'[2 + i].op = "sync" /\ log'[2 + i].d = i
            /\ log'[Len(dices') + 3].op = "render"
            /\ Count("camera")' = 1
            /\ Count("sync")' = Len(dices')
            /\ Count("render")' = 1
            /\ Count("raf")' = 0
            /\ rafPending' = rafPending]_vars

\* a resize callback ran with two tracked objects
C7_Witness ==
    /\ Ran("resize")
    /\ Len(dices) = 2
    /\ Count("sync") = 2
    /\ Count("render") = 1

(* C8: at the moment the render forced by a resize draws the scene, every  *)
(* object's drawable position and scale are the ones composed from the     *)
(* base transform the callback has just recomputed.                        *)

\* what the render of the last step drew
RenderOut == log[CHOOSE i \in DOMAIN log : log[i].op = "render"].out

C8_ForcedRenderUsesNewBase ==
    Ran("resize")
        => \A d \in DOMAIN dices :
              /\ RenderOut[d].pos.x
                   = Add(dices[d].basePos.x, dices[d].position.x)
              /\ RenderOut[d].pos.y
                   = Add(dices[d].basePos.y, dices[d].position.y)
              /\ RenderOut[d].scale = dices[d].baseScale * dices[d].scale

(* C9: whenever the scene is rendered, by a frame or by a resize callback, *)
(* each drawable's position is the object's base position plus its         *)
(* animated offset and its scale the base scale times the animated factor, *)
(* as these are at that moment.                                            *)

\* The base transform at the moment of the step's render: a frame renders
\* first; a resize callback renders after updateTransform, which keeps z.
BaseAtRender(d) ==
    IF Ran("resize")'
    THEN [pos |-> [dices'[d].basePos EXCEPT !.z = dices[d].basePos.z],
          scale |-> dices'[d].baseScale]
    ELSE [pos |-> dices[d].basePos, scale |-> dices[d].baseScale]

C9_RenderedIsComposed ==
    [][(Ran("frame")' \/ Ran("resize")')
         => \A d \in DOMAIN dices :
               /\ RenderOut'[d].pos
                    = [x |-> Add(BaseAtRender(d).pos.x, dices[d].position.x),
                       y |-> Add(BaseAtRender(d).pos.y, dices[d].position.y),
                       z |-> Add(BaseAtRender(d).pos.z, dices[d].position.z)]
               /\ RenderOut'[d].scale
                    = BaseAtRender(d).scale * dices[d].scale]_vars

(* C10: a layout-change notification for one object recomputes that        *)
(* object's base transform only: every other object is left as it was, and *)
(* the notified object keeps its animated fields, flags, state and tweens. *)

C10_MutationFrame ==
    [][\A d \in DOMAIN dices :
          (Ran("mutation")' /\ log'[1].d = d)
              => /\ DOMAIN dices' = DOMAIN dices
                 /\ \A e \in DOMAIN dices \ {d} : dices'[e] = dices[e]
                 /\ dices'[d] = [dices[d] EXCEPT
                                   !.rect = dices'[d].rect,
                                   !.basePos = dices'[d].basePos,
                                   !.baseScale = dices'[d].baseScale]
                 /\ \A i \in DOMAIN log' :
                       log'[i].op = "sync" => log'[i].d = d
                 /\ UNCHANGED <<camera, canvasSize, rafPending>>]_vars

\* a notification moved one of two objects that sat on the same rectangle:
\* its base position is recomputed and now differs from the other's
C10_Witness ==
    \E d, e \in DOMAIN dices :
        /\ Ran("mutation") /\ log[1].d = d /\ e # d
        /\ IsFinite(dices[d].basePos.x) /\ IsFinite(dices[e].basePos.x)
        /\ dices[d].basePos.x # dices[e].basePos.x
        /\ dices[d].rect # dices[e].rect

----------------------------------------------------------------------------
(* Vocabulary of the properties about updateTransform *)

\* one more call of updateTransform on o, nothing else having changed
Resync(o) == UpdateTransform(o, GridRect, camera, variant)

\* the last step called updateTransform of object d
Synced(d) == Calls(d, {"sync"}) # <<>>

\* the canvas rectangle has a width and a height
Sized == canvasSize[1] # 0 /\ canvasSize[2] # 0

(* C11: updateTransform is idempotent.  With a canvas rectangle that is    *)
(* not empty, whatever the layout rectangle and the camera are: a second   *)
(* call right after a first one leaves the base position and base scale as *)
(* the first call left them, and an object the last step has synchronised  *)
(* is left as it is by one more call.                                      *)

C11_SyncIdempotent ==
    \A d \in DOMAIN dices :
        Sized => /\ Resync(Resync(dices[d])) = Resync(dices[d])
                 /\ Synced(d) => Resync(dices[d]) = dices[d]

\* a layout notification has put an object at a finite base position away
\* from the origin, and one more call leaves it there
C11_Witness ==
    \E d \in DOMAIN dices :
        /\ Ran("mutation") /\ log[1].d = d /\ Sized
        /\ IsFinite(dices[d].basePos.x) /\ dices[d].basePos.x # 0
        /\ Resync(dices[d]) = dices[d]

(* C12: when the canvas rectangle has zero width or zero height,           *)
(* updateTransform produces a defined NDC and leaves the base position     *)
(* finite.                                                                 *)

C12_ZeroViewportFallback ==
    \A d \in DOMAIN dices :
        (Synced(d) /\ ~Sized)
            => /\ IsFinite(XNdc(dices[d].rect, GridRect, variant))
               /\ IsFinite(YNdc(dices[d].rect, GridRect, variant))
               /\ IsFinite(dices[d].basePos.x)
               /\ IsFinite(dices[d].basePos.y)

(* C13: in every reachable state, from construction onward, the camera's   *)
(* projection parameters are the ones derived from the current size of the *)
(* render surface.                                                         *)

\* the camera's frustum is the one of a surface of size sz
DerivedFrom(sz) ==
    IF variant = "ortho"
    THEN /\ camera.left = (0 - sz[1]) \div 2 /\ camera.right = sz[1] \div 2
         /\ camera.top = sz[2] \div 2 /\ camera.bottom = (0 - sz[2]) \div 2
    ELSE camera.aspect = Aspect(sz[1], sz[2])

C13_CameraConsistent == DerivedFrom(canvasSize)

(* C13 as amended: from the first resize notification onward, the render   *)
(* surface has the size last notified and the camera's projection          *)
(* parameters are the ones derived from it.                                *)

C13_ConsistentOnceObserved ==
    observed # <<>>
        => canvasSize = observed /\ DerivedFrom(observed)

\* a resize callback has given the camera a frustum other than the
\* constructor's
C13_Witness ==
    /\ Ran("resize")
    /\ observed = <<8, 4>>
    /\ camera # InitCamera(variant)

(* C14: updateTransform writes the x and y of the base position and the    *)
(* base scale, nothing else: the base position keeps its z, and the        *)
(* animated offset, the animated scale factor, the flags, the state and    *)
(* the tweens are as before the call.                                      *)

C14_SyncKeepsZ ==
    [][\A d \in DOMAIN dices :
          /\ Resync(dices[d])
                = [dices[d] EXCEPT
                     !.basePos.x = Resync(dices[d]).basePos.x,
                     !.basePos.y = Resync(dices[d]).basePos.y,
                     !.baseScale = Resync(dices[d]).baseScale]
          /\ (Ran("mutation")' /\ log'[1].d = d)
                => /\ dices'[d].basePos.z = dices[d].basePos.z
                   /\ dices'[d].position = dices[d].position
                   /\ dices'[d].scale = dices[d].scale
                   /\ dices'[d].isHovered = dices[d].isHovered
                   /\ dices'[d].isDragged = dices[d].isDragged
                   /\ dices'[d].state = dices[d].state
                   /\ dices'[d].tweens = dices[d].tweens]_vars

\* a layout notification reached an object that a tick had brought to the
\* front: it moved in x and y and stayed in front
C14_Witness ==
    \E d \in DOMAIN dices :
        /\ Ran("mutation") /\ log[1].d = d
        /\ dices[d].basePos.z = FrontZ
        /\ dices[d].isHovered

(* C15: the base fields and the animated fields have disjoint writers: a   *)
(* step that does not call updateTransform of an object leaves its base    *)
(* position and base scale as they were, a step that calls it leaves the   *)
(* base position's z, the animated offset and the animated scale factor as *)
(* they were.                                                              *)

C15_DisjointWriters ==
    [][\A d \in DOMAIN dices :
          /\ ~Synced(d)' => /\ dices'[d].basePos = dices[d].basePos
                             /\ dices'[d].baseScale = dices[d].baseScale
          /\ Synced(d)' => /\ dices'[d].basePos.z = dices[d].basePos.z
                            /\ dices'[d].position = dices[d].position
                            /\ dices'[d].scale = dices[d].scale]_vars

(* C15 as amended: the x and y of the base position and the base scale     *)
(* change only in a step that calls updateTransform of the object, and     *)
(* such a step leaves the animated offset and scale factor as they were;   *)
(* the z of the base position is written by tick alone, in the first       *)
(* revision, which sets it from the flags after composing.                 *)

C15_DisjointExceptZ ==
    [][\A d \in DOMAIN dices :
          /\ ~Synced(d)' => /\ dices'[d].basePos.x = dices[d].basePos.x
                             /\ dices'[d].basePos.y = dices[d].basePos.y
                             /\ dices'[d].baseScale = dices[d].baseScale
          /\ Synced(d)' => /\ dices'[d].position = dices[d].position
                            /\ dices'[d].scale = dices[d].scale
          /\ dices'[d].basePos.z # dices[d].basePos.z
                => /\ variant = "ortho"
                   /\ Calls(d, {"compose"})' # <<>>
                   /\ dices'[d].basePos.z
                        = IF dices'[d].isHovered \/ dices'[d].isDragged
                          THEN FrontZ ELSE 0]_vars

\* a frame's tick has moved the base position of a dragged object to the
\* front while its base x and y stayed where updateTransform had put them
C15_Witness ==
    \E d \in DOMAIN dices :
        /\ Ran("frame") /\ ~Synced(d)
        /\ dices[d].isDragged /\ dices[d].state = "Dragged"
        /\ dices[d].basePos.z = FrontZ
        /\ IsFinite(dices[d].basePos.x) /\ dices[d].basePos.x # 0

(* C16: cancellation is targeted.  A kill made for an object on entering   *)
(* or leaving Dragged cancels tweens of that object's rotation or scale    *)
(* only: the object's position tweens stay in flight, those started in the *)
(* same step included, and an object for which the step made no kill keeps *)
(* every tween it had.                                                     *)

IsPrefix(a, b) == Len(a) <= Len(b) /\ SubSeq(b, 1, Len(a)) = a

\* the tweens on `prop` the last step started for object d
StartedOn(d, prop) ==
    SelectSeq(Calls(d, {"to"}), LAMBDA e : e.arg = prop)

C16_TargetedCancellation ==
    [][log' # <<>>
         => \A d \in DOMAIN dices :
               /\ \A i \in DOMAIN Calls(d, {"kill"})' :
                     /\ Calls(d, {"kill"})'[i].arg \in {"rotY", "scale"}
                     /\ \A j \in DOMAIN Calls(d, {"kill"})'[i].out :
                           Calls(d, {"kill"})'[i].out[j].prop
                             = Calls(d, {"kill"})'[i].arg
               /\ Calls(d, {"kill"})' # <<>>
                     => \E i \in DOMAIN Calls(d, {"enter", "exit"})' :
                           Calls(d, {"enter", "exit"})'[i].arg = "Dragged"
               /\ IsPrefix(TweensOn(d, "posY"), TweensOn(d, "posY")')
               /\ Len(TweensOn(d, "posY")')
                    = Len(TweensOn(d, "posY")) + Len(StartedOn(d, "posY")')
               /\ Calls(d, {"kill"})' = <<>>
                     => IsPrefix(dices[d].tweens, dices'[d].tweens)]_vars

\* entering Dragged cancelled a scale tween of one object while a tween of
\* another object stayed in flight
C16_Witness ==
    \E d, e \in DOMAIN dices :
        /\ d # e /\ Ran("frame")
        /\ \E i \in DOMAIN Calls(d, {"kill"}) :
              Calls(d, {"kill"})[i].out # <<>>
        /\ Calls(e, {"kill"}) = <<>>
        /\ dices[e].tweens # <<>>
        /\ dices[e].tweens[1].age = 0

(* C17: updateTransform computes ndcX = ((centerX - viewportLeft) /        *)
(* viewportWidth) * 2 - 1 and ndcY = -(((centerY - viewportTop) /          *)
(* viewportHeight) * 2 - 1): with a viewport that is not empty, a centre   *)
(* inside it has both coordinates in [-1, 1], the viewport's centre maps   *)
(* to (0, 0) and a larger host y gives a smaller ndcY.                     *)

\* rectangles of 2 x 2 whose centres cover the viewports of Sizes
NdcRects ==
    { [left |-> l, top |-> t, width |-> 2, height |-> 2] :
        l \in 1 .. 9, t \in 1 .. 5 }

CenterX(rect) == rect.left + rect.width \div 2

CenterY(rect) == rect.top + rect.height \div 2

Viewport(sz) ==
    [left |-> CanvasOrigin.left, top |-> CanvasOrigin.top,
     width |-> sz[1], height |-> sz[2]]

Inside(rect, vp) ==
    /\ vp.left <= CenterX(rect) /\ CenterX(rect) <= vp.left + vp.width
    /\ vp.top <= CenterY(rect) /\ CenterY(rect) <= vp.top + vp.height

NdcOf(rect, vp) ==
    /\ XNdc(rect, vp, variant)
         = ((CenterX(rect) - vp.left) * 2 * NdcUnit) \div vp.width - NdcUnit
    /\ YNdc(rect, vp, variant)
         = 0 - (((CenterY(rect) - vp.top) * 2 * NdcUnit) \div vp.height
                  - NdcUnit)
    /\ Inside(rect, vp)
         => /\ XNdc(rect, vp, variant) \in (0 - NdcUnit) .. NdcUnit
            /\ YNdc(rect, vp, variant) \in (0 - NdcUnit) .. NdcUnit
    /\ (CenterX(rect) - vp.left) * 2 = vp.width
         => XNdc(rect, vp, variant) = 0
    /\ (CenterY(rect) - vp.top) * 2 = vp.height
         => YNdc(rect, vp, variant) = 0

C17_NdcFormula ==
    /\ \A d \in DOMAIN dices :
          (Synced(d) /\ Sized) => NdcOf(dices[d].rect, GridRect)
    /\ \A sz \in Sizes : \A r \in NdcRects :
          (sz[1] # 0 /\ sz[2] # 0)
              => /\ NdcOf(r, Viewport(sz))
                 /\ YNdc(r, Viewport(sz), variant)
                      > YNdc([r EXCEPT !.top = @ + 1], Viewport(sz), variant)

(* C18: an Idle update advances the rotation angle by the idle step modulo *)
(* one full turn, and the angle stays in [0, one full turn): after every   *)
(* update and in every render, also while the settle spin started by       *)
(* DragState.exit is in flight.                                            *)

C18_RotationWithinTurn ==
    [][\A d \in DOMAIN dices :
          /\ UpdatedFrom(d, "Idle")'
                => /\ dices'[d].rotY
                        = (dices[d].rotY + IDLE_ROTATE_SPEED) % FullTurn
                   /\ dices'[d].rotY \in 0 .. FullTurn - 1
          /\ (Ran("frame")' \/ Ran("resize")')
                => RenderOut'[d].rotY \in 0 .. FullTurn - 1]_vars

(* C19: from construction onward exactly one frame callback is pending     *)
(* between callbacks: the constructor and every frame schedule exactly     *)
(* one, the render forced by a resize schedules none.                      *)

C19_OneFramePending ==
    /\ rafPending = 1
    /\ (Ran("new") \/ Ran("frame")) => Count("raf") = 1
    /\ Ran("resize") => Count("raf") = 0

\* a frame ran after two resize notifications, and one frame is pending
C19_Witness ==
    /\ Ran("frame")
    /\ observed # <<>> /\ canvasSize = observed
    /\ camera # InitCamera(variant)
    /\ steps >= 3
    /\ rafPending = 1

(* C20: with the flags of an object held constant, two updates take it     *)
(* from any state to the state the flags determine (Dragged if isDragged,  *)
(* else Hovered if isHovered, else Idle), and an update of an object in    *)
(* that state keeps it there and calls no exit and no enter.               *)

Target(h, g) == IF g THEN "Dragged" ELSE IF h THEN "Hovered" ELSE "Idle"

TargetOf(d) == Target(dices[d].isHovered, dices[d].isDragged)

\* object d as update receives it
Obj(d) == [o |-> dices[d], id |-> d, log |-> <<>>]

\* the next update of an object, traced on its own
Again(c) == Update([c EXCEPT !.log = <<>>])

Quiet(c) ==
    \A i \in DOMAIN c.log : c.log[i].op = "update"

C20_ConvergesInTwo ==
    \A d \in DOMAIN dices :
        /\ Again(Again(Obj(d))).o.state = TargetOf(d)
        /\ Again(Again(Again(Obj(d)))).o.state = TargetOf(d)
        /\ Quiet(Again(Again(Again(Obj(d)))))
        /\ \A s \in States :
              (UpdatedFrom(d, s) /\ s = TargetOf(d))
                  => dices[d].state = s /\ Protocol(d) = <<>>

\* a dragged object was released while hovered: a frame's update has taken
\* it from Dragged to Idle, which is not yet the state of its flags, and the
\* next update takes it to Hovered
C20_Witness ==
    \E d \in DOMAIN dices :
        /\ Ran("frame") /\ UpdatedFrom(d, "Dragged")
        /\ dices[d].isHovered /\ ~dices[d].isDragged
        /\ dices[d].state = "Idle"
        /\ Again(Obj(d)).o.state = "Hovered"
        /\ Quiet(Again(Again(Obj(d))))

====
